---------------------------- MODULE Spec2Model ----------------------------
(***************************************************************************)
(* Model of crates/optix/src/instance_array.rs: the Instance record and    *)
(* its fluent configuration API, the InstanceFlags bit set, the repr(C)    *)
(* layout of Instance, and the two build inputs InstanceArray and          *)
(* InstancePointerArray with their to_sys conversion.                      *)
(*                                                                         *)
(* Two specifications share the variables:                                 *)
(*   Spec       a caller constructing and configuring an Instance          *)
(*   SpecArray  a caller wrapping device slices and converting them        *)
(* Floats are modelled by the integers 0 and 1 and other small integers;   *)
(* the code only stores them.                                              *)
(***************************************************************************)
EXTENDS Integers, Sequences, FiniteSets

VARIABLES
    inst,       \* the Instance value the caller holds
    accel,      \* the Accel the Instance was created from
    last,       \* history: the argument of the latest call of each configuration
                \* operation since new, or None
    overwrote,  \* history: some call since new replaced an earlier, different
                \* argument of the same operation
    features,   \* the cargo features the crate was compiled with
    ia,         \* the InstanceArray the caller holds, or None
    ipa,        \* the InstancePointerArray the caller holds, or None
    descIA,     \* the descriptor the current ia last produced, or None
    descIPA     \* the descriptor the current ipa last produced, or None

vars == <<inst, accel, last, overwrote, features, ia, ipa, descIA, descIPA>>

---------------------------------------------------------------------------
(* Bounds of the model *)

MaxArg    == 1   \* u32 arguments are 0..MaxArg and u32::MAX
MaxMask   == 0   \* u8 arguments are 0..MaxMask, 200 and 255
MaxT      == 1   \* transform arguments: the identity and MaxT other arrays
MaxHandle == 2   \* traversable handles 1..MaxHandle
MaxPtr    == 2   \* device addresses 4096 * (1..MaxPtr)
MaxLen    == 1   \* slice lengths 0..MaxLen and the three around 2^32

---------------------------------------------------------------------------
(* Machine integers *)
(* A u32 is a pair of 16-bit limbs <<lo, hi>> and a usize (64 bits) is    *)
(* four limbs, least significant first, so that every value of the type   *)
(* is representable.  A u8 is a number 0..255.  Device addresses and      *)
(* handles are only copied, and are small numbers.                        *)

LimbMod == 2 ^ 16

IsU32(x) == x \in Seq(0..(LimbMod - 1)) /\ Len(x) = 2

\* the u32 and the usize written as the literal k, for a small k
U32Lit(k)   == <<k % LimbMod, k \div LimbMod>>
UsizeLit(k) == <<k % LimbMod, k \div LimbMod, 0, 0>>

U32MAX == <<LimbMod - 1, LimbMod - 1>>

\* numeric equality of two unsigned values of any widths
Widen(x, n) == [i \in 1..n |-> IF i <= Len(x) THEN x[i] ELSE 0]
NumEq(x, y) == Widen(x, 4) = Widen(y, 4)

\* variant: a saturating conversion
UsizeAsU32_saturating(x) ==
    IF x[3] = 0 /\ x[4] = 0 THEN SubSeq(x, 1, 2) ELSE U32MAX
\* `x as u32` for x: usize keeps the low 32 bits
UsizeAsU32(x) == SubSeq(x, 1, 2)

\* variant: a cast through i8, which sign-extends
U8AsU32_signed(m) ==
    IF m >= 128 THEN <<LimbMod - 256 + m, LimbMod - 1>> ELSE <<m, 0>>
\* `x as u32` for x: u8 zero-extends
U8AsU32(m) == <<m, 0>>

RECURSIVE BitOrRec(_, _, _)
BitOrRec(a, b, n) ==
    IF n = 0 THEN 0
    ELSE (IF (a % 2 = 1) \/ (b % 2 = 1) THEN 1 ELSE 0)
         + 2 * BitOrRec(a \div 2, b \div 2, n - 1)

RECURSIVE BitAndRec(_, _, _)
BitAndRec(a, b, n) ==
    IF n = 0 THEN 0
    ELSE (IF (a % 2 = 1) /\ (b % 2 = 1) THEN 1 ELSE 0)
         + 2 * BitAndRec(a \div 2, b \div 2, n - 1)

\* u32 | u32 and u32 & u32, limb by limb
BitOr32(a, b)  == <<BitOrRec(a[1], b[1], 16), BitOrRec(a[2], b[2], 16)>>
BitAnd32(a, b) == <<BitAndRec(a[1], b[1], 16), BitAndRec(a[2], b[2], 16)>>

\* bit i (0..31) of a u32
Bit(x, i) == IF i < 16 THEN (x[1] \div (2 ^ i)) % 2 ELSE (x[2] \div (2 ^ (i - 16))) % 2

---------------------------------------------------------------------------
(* InstanceFlags: bitflags! over u32, with the values of the driver's      *)
(* OptixInstanceFlags enumeration                                          *)

NONE                          == U32Lit(0)
DISABLE_TRIANGLE_FACE_CULLING == U32Lit(1)
FLIP_TRIANGLE_FACING          == U32Lit(2)
DISABLE_ANYHIT                == U32Lit(4)
ENFORCE_ANYHIT                == U32Lit(8)
DISABLE_TRANSFORM             == U32Lit(64)

NamedFlagSeq == <<NONE, DISABLE_TRIANGLE_FACE_CULLING, FLIP_TRIANGLE_FACING,
                  DISABLE_ANYHIT, ENFORCE_ANYHIT, DISABLE_TRANSFORM>>
NamedFlags == {NamedFlagSeq[i] : i \in 1..Len(NamedFlagSeq)}

\* impl BitOr for InstanceFlags: Self { bits: self.bits | other.bits }
union(a, b) == BitOr32(a, b)

\* InstanceFlags::contains: (self.bits & other.bits) == other.bits
\* variant: intersects in place of contains
contains_intersects(self, other) == BitAnd32(self, other) # NONE
contains(self, other) == BitAnd32(self, other) = other

---------------------------------------------------------------------------
(* Instance *)

\* [f32; 12] -> RowMatrix3x4<f32>: three rows x, y, z of four columns each
Vector4(a, i) == [x |-> a[i], y |-> a[i + 1], z |-> a[i + 2], w |-> a[i + 3]]
into(a) == [x |-> Vector4(a, 1), y |-> Vector4(a, 5), z |-> Vector4(a, 9)]

\* Accel::handle
handle(a) == a.hnd

\* variant: visibility_mask left at 0
new_mask0(a) ==
    [transform          |-> into(<<1, 0, 0, 0,  0, 1, 0, 0,  0, 0, 1, 0>>),
     instance_id        |-> U32Lit(0),
     sbt_offset         |-> U32Lit(0),
     visibility_mask    |-> U32Lit(0),
     flags              |-> NONE,
     traversable_handle |-> handle(a),
     pad                |-> <<U32Lit(0), U32Lit(0)>>,
     accel              |-> "PhantomData"]
new(a) ==
    [transform          |-> into(<<1, 0, 0, 0,  0, 1, 0, 0,  0, 0, 1, 0>>),
     instance_id        |-> U32Lit(0),
     sbt_offset         |-> U32Lit(0),
     visibility_mask    |-> U32Lit(255),
     flags              |-> NONE,
     traversable_handle |-> handle(a),
     pad                |-> <<U32Lit(0), U32Lit(0)>>,
     accel              |-> "PhantomData"]

transform(self, t) == [self EXCEPT !.transform = into(t)]

\* variant: the id also written to sbt_offset
instance_id_clobber(self, id) ==
    [self EXCEPT !.instance_id = id, !.sbt_offset = id]
instance_id(self, id) == [self EXCEPT !.instance_id = id]

\* variant: the offset also written to the first pad word
sbt_offset_spill(self, offset) ==
    [self EXCEPT !.sbt_offset = offset, !.pad = <<offset, U32Lit(0)>>]
sbt_offset(self, offset) == [self EXCEPT !.sbt_offset = offset]

\* variant: the sign-extending cast
visibility_mask_signed(self, m) ==
    [self EXCEPT !.visibility_mask = U8AsU32_signed(m)]
visibility_mask(self, m) == [self EXCEPT !.visibility_mask = U8AsU32(m)]

\* variant: the argument added to the flags already set
flags_merge(self, f) == [self EXCEPT !.flags = union(self.flags, f)]
flags(self, f) == [self EXCEPT !.flags = f]

---------------------------------------------------------------------------
(* Inputs of the Instance operations *)

\* Option: None is the empty sequence, Some(x) the sequence of x alone
None == <<>>
Some(x) == <<x>>

Accels == {[hnd |-> h] : h \in 1..MaxHandle}

U32Args == {U32Lit(k) : k \in 0..MaxArg} \cup {U32MAX}
U8Args  == (0..MaxMask) \cup {200, 255}

IdentityArray == <<1, 0, 0, 0,  0, 1, 0, 0,  0, 0, 1, 0>>
TransformArgs ==
    {IdentityArray} \cup {[i \in 1..12 |-> i + k] : k \in 1..MaxT}

\* the arguments a caller builds as a | b from two named flags; FlagPairs
\* keeps one of <<a, b>> and <<b, a>>
FlagArgs ==
    {[a |-> NamedFlagSeq[i], b |-> NamedFlagSeq[j],
      u |-> union(NamedFlagSeq[i], NamedFlagSeq[j])] :
        i \in 1..Len(NamedFlagSeq), j \in 1..Len(NamedFlagSeq)}
FlagPairs == {f \in FlagArgs : f.a[1] <= f.b[1]}

ConfigOps == {"transform", "instance_id", "sbt_offset", "visibility_mask", "flags"}

---------------------------------------------------------------------------
\* a call of operation f with argument x replaces an earlier, different one
Replaces(f, x) == last[f] # None /\ last[f] # Some(x)

(* Actions of Spec: one per operation of impl Instance.  last records the  *)
(* argument of the latest call of each configuration operation since new.  *)

InitInstance ==
    /\ \E a \in Accels : accel = a /\ inst = new(a)
    /\ last = [f \in ConfigOps |-> None]
    /\ overwrote = FALSE

New ==
    /\ \E a \in Accels : accel' = a /\ inst' = new(a)
    /\ last' = [f \in ConfigOps |-> None]
    /\ overwrote' = FALSE
    /\ UNCHANGED <<features, ia, ipa, descIA, descIPA>>

Transform ==
    /\ \E t \in TransformArgs :
          /\ inst' = transform(inst, t)
          /\ last' = [last EXCEPT !.transform = Some(t)]
          /\ overwrote' = (overwrote \/ Replaces("transform", t))
    /\ UNCHANGED <<accel, features, ia, ipa, descIA, descIPA>>

InstanceId ==
    /\ \E id \in U32Args :
          /\ inst' = instance_id(inst, id)
          /\ last' = [last EXCEPT !.instance_id = Some(id)]
          /\ overwrote' = (overwrote \/ Replaces("instance_id", id))
    /\ UNCHANGED <<accel, features, ia, ipa, descIA, descIPA>>

SbtOffset ==
    /\ \E offset \in U32Args :
          /\ inst' = sbt_offset(inst, offset)
          /\ last' = [last EXCEPT !.sbt_offset = Some(offset)]
          /\ overwrote' = (overwrote \/ Replaces("sbt_offset", offset))
    /\ UNCHANGED <<accel, features, ia, ipa, descIA, descIPA>>

VisibilityMask ==
    /\ \E m \in U8Args :
          /\ inst' = visibility_mask(inst, m)
          /\ last' = [last EXCEPT !.visibility_mask = Some(m)]
          /\ overwrote' = (overwrote \/ Replaces("visibility_mask", m))
    /\ UNCHANGED <<accel, features, ia, ipa, descIA, descIPA>>

Flags ==
    /\ \E f \in FlagPairs :
          /\ inst' = flags(inst, f.u)
          /\ last' = [last EXCEPT !.flags = Some(f)]
          /\ overwrote' = (overwrote \/ Replaces("flags", f))
    /\ UNCHANGED <<accel, features, ia, ipa, descIA, descIPA>>

---------------------------------------------------------------------------
(* Layout of Instance: #[repr(C, align(16))] places the fields in their     *)
(* declared order, each at the next multiple of its alignment; the struct  *)
(* is aligned to the largest of the field alignments and the align         *)
(* attribute, and its size is rounded up to that alignment.                *)

ReprAlign == 16

\* the fields in declaration order, with the size and alignment of each type
InstanceFields ==
    <<[name |-> "transform",          size |-> 12 * 4, align |-> 4],  \* RowMatrix3x4<f32>
      [name |-> "instance_id",        size |-> 4,      align |-> 4],  \* u32
      [name |-> "sbt_offset",         size |-> 4,      align |-> 4],  \* u32
      [name |-> "visibility_mask",    size |-> 4,      align |-> 4],  \* u32
      [name |-> "flags",              size |-> 4,      align |-> 4],  \* InstanceFlags: u32
      [name |-> "traversable_handle", size |-> 8,      align |-> 8],  \* TraversableHandle: u64
      [name |-> "pad",                size |-> 2 * 4,  align |-> 4],  \* [u32; 2]
      [name |-> "accel",              size |-> 0,      align |-> 1]>> \* PhantomData

AlignUp(n, a) == ((n + a - 1) \div a) * a

Max(S) == CHOOSE m \in S : \A x \in S : x <= m

RECURSIVE offset_of(_)
offset_of(i) ==
    IF i = 1 THEN 0
    ELSE AlignUp(offset_of(i - 1) + InstanceFields[i - 1].size,
                 InstanceFields[i].align)

\* variant: the align attribute dropped
align_of_fields_only ==
    Max({InstanceFields[i].align : i \in 1..Len(InstanceFields)})
align_of_Instance ==
    Max({ReprAlign} \cup {InstanceFields[i].align : i \in 1..Len(InstanceFields)})

size_of_Instance ==
    AlignUp(offset_of(Len(InstanceFields))
              + InstanceFields[Len(InstanceFields)].size,
            align_of_Instance)

\* the driver's struct: sys::OptixInstanceByteAlignment, size_of::<sys::OptixInstance>()
OptixInstanceByteAlignment == 16
size_of_OptixInstance      == 80

\* const_assert_eq!: the crate compiles only if both hold
ConstAsserts ==
    /\ align_of_Instance = OptixInstanceByteAlignment
    /\ size_of_Instance = size_of_OptixInstance

---------------------------------------------------------------------------
(* Build inputs *)

OPTIX_BUILD_INPUT_TYPE_INSTANCES         == 8515
OPTIX_BUILD_INPUT_TYPE_INSTANCE_POINTERS == 8516

\* DeviceSlice::as_device_ptr and DeviceSlice::len (a usize)
as_device_ptr(s) == s.ptr
len(s) == s.len

InstanceArray_new(instances) == [instances |-> instances]
InstancePointerArray_new(instances) == [instances |-> instances]

\* cfg(any(feature = "optix72", feature = "optix73"))
NewerGeneration(fs) == ("optix72" \in fs) \/ ("optix73" \in fs)

\* the older shape with the bounding boxes pointed at the instances
InstanceArray_to_sys_aabbs(self, fs) ==
    IF NewerGeneration(fs)
    THEN [type_ |-> OPTIX_BUILD_INPUT_TYPE_INSTANCES,
          input |-> [instances    |-> as_device_ptr(self.instances),
                     numInstances |-> UsizeAsU32(len(self.instances))]]
    ELSE [type_ |-> OPTIX_BUILD_INPUT_TYPE_INSTANCES,
          input |-> [instances    |-> as_device_ptr(self.instances),
                     numInstances |-> UsizeAsU32(len(self.instances)),
                     aabbs        |-> as_device_ptr(self.instances),
                     numAabbs     |-> UsizeAsU32(len(self.instances))]]
InstanceArray_to_sys(self, fs) ==
    IF NewerGeneration(fs)
    THEN [type_ |-> OPTIX_BUILD_INPUT_TYPE_INSTANCES,
          input |-> [instances    |-> as_device_ptr(self.instances),
                     numInstances |-> UsizeAsU32(len(self.instances))]]
    ELSE [type_ |-> OPTIX_BUILD_INPUT_TYPE_INSTANCES,
          input |-> [instances    |-> as_device_ptr(self.instances),
                     numInstances |-> UsizeAsU32(len(self.instances)),
                     aabbs        |-> 0,
                     numAabbs     |-> U32Lit(0)]]

\* variant: the tag of InstanceArray
InstancePointerArray_to_sys_sametag(self, fs) ==
    IF NewerGeneration(fs)
    THEN [type_ |-> OPTIX_BUILD_INPUT_TYPE_INSTANCES,
          input |-> [instances    |-> as_device_ptr(self.instances),
                     numInstances |-> UsizeAsU32(len(self.instances))]]
    ELSE [type_ |-> OPTIX_BUILD_INPUT_TYPE_INSTANCES,
          input |-> [instances    |-> as_device_ptr(self.instances),
                     numInstances |-> UsizeAsU32(len(self.instances)),
                     aabbs        |-> 0,
                     numAabbs     |-> U32Lit(0)]]
InstancePointerArray_to_sys(self, fs) ==
    IF NewerGeneration(fs)
    THEN [type_ |-> OPTIX_BUILD_INPUT_TYPE_INSTANCE_POINTERS,
          input |-> [instances    |-> as_device_ptr(self.instances),
                     numInstances |-> UsizeAsU32(len(self.instances))]]
    ELSE [type_ |-> OPTIX_BUILD_INPUT_TYPE_INSTANCE_POINTERS,
          input |-> [instances    |-> as_device_ptr(self.instances),
                     numInstances |-> UsizeAsU32(len(self.instances)),
                     aabbs        |-> 0,
                     numAabbs     |-> U32Lit(0)]]

---------------------------------------------------------------------------
(* Inputs of the build inputs *)

FeatureSets == SUBSET {"optix72", "optix73"}

DevicePtrs == {4096 * k : k \in 1..MaxPtr}
\* lengths 0..MaxLen, 2^32 - 1, 2^32 and 2^32 + 1
Lens == {UsizeLit(k) : k \in 0..MaxLen}
        \cup {<<LimbMod - 1, LimbMod - 1, 0, 0>>, <<0, 0, 1, 0>>, <<1, 0, 1, 0>>}
DeviceSlices == {[ptr |-> p, len |-> n] : p \in DevicePtrs, n \in Lens}

---------------------------------------------------------------------------
(* Actions of SpecArray *)

InitArray ==
    /\ ia = None
    /\ ipa = None
    /\ descIA = None
    /\ descIPA = None

InstanceArrayNew ==
    /\ \E s \in DeviceSlices : ia' = Some(InstanceArray_new(s))
    /\ descIA' = None
    /\ UNCHANGED <<inst, accel, last, overwrote, features, ipa, descIPA>>

InstancePointerArrayNew ==
    /\ \E s \in DeviceSlices : ipa' = Some(InstancePointerArray_new(s))
    /\ descIPA' = None
    /\ UNCHANGED <<inst, accel, last, overwrote, features, ia, descIA>>

InstanceArrayToSys ==
    /\ ia # None
    /\ descIA' = Some(InstanceArray_to_sys(ia[1], features))
    /\ UNCHANGED <<inst, accel, last, overwrote, features, ia, ipa, descIPA>>

InstancePointerArrayToSys ==
    /\ ipa # None
    /\ descIPA' = Some(InstancePointerArray_to_sys(ipa[1], features))
    /\ UNCHANGED <<inst, accel, last, overwrote, features, ia, ipa, descIA>>

---------------------------------------------------------------------------
(* Specifications *)

\* impl Instance has no cfg: Spec follows one build of the crate
Init == InitInstance /\ InitArray /\ features = {"optix73"}

\* the build inputs are followed in every build
InitAnyBuild == InitInstance /\ InitArray /\ features \in FeatureSets

Next ==
    \/ New
    \/ Transform
    \/ InstanceId
    \/ SbtOffset
    \/ VisibilityMask
    \/ Flags

NextArray ==
    \/ InstanceArrayNew
    \/ InstancePointerArrayNew
    \/ InstanceArrayToSys
    \/ InstancePointerArrayToSys

Spec == Init /\ [][Next]_vars

SpecArray == InitAnyBuild /\ [][NextArray]_vars

---------------------------------------------------------------------------
(* Claims *)

AllNone == [f \in ConfigOps |-> None]

Zero32 == <<0, 0>>

IsRowMatrix3x4(m) ==
    /\ DOMAIN m = {"x", "y", "z"}
    /\ \A r \in {"x", "y", "z"} : DOMAIN m[r] = {"x", "y", "z", "w"}

IsInstance(i) ==
    /\ DOMAIN i = {"transform", "instance_id", "sbt_offset", "visibility_mask",
                   "flags", "traversable_handle", "pad", "accel"}
    /\ IsRowMatrix3x4(i.transform)
    /\ IsU32(i.instance_id) /\ IsU32(i.sbt_offset)
    /\ IsU32(i.visibility_mask) /\ IsU32(i.flags)
    /\ Len(i.pad) = 2 /\ IsU32(i.pad[1]) /\ IsU32(i.pad[2])

\* C1 as stated: for an InstanceArray over a slice of any length N, the
\* descriptor's 32-bit count equals N and its data pointer is the slice's
\* device address.
C1_CountEqualsLen ==
    descIA # None =>
        /\ NumEq(descIA[1].input.numInstances, ia[1].instances.len)
        /\ descIA[1].input.instances = ia[1].instances.ptr

\* C1 amended: the descriptor's count is a u32 holding the low 32 bits of N,
\* so it equals N exactly when N < 2^32 (N = 0 included), and its data pointer
\* is the slice's device address; the conversion is defined for every slice.
C1_CountIsLenMod2p32 ==
    /\ ia # None => IsU32(InstanceArray_to_sys(ia[1], features).input.numInstances)
    /\ descIA # None =>
        LET n == ia[1].instances.len
            d == descIA[1].input
        IN  /\ d.numInstances = <<n[1], n[2]>>
            /\ (n[3] = 0 /\ n[4] = 0) => NumEq(d.numInstances, n)
            /\ (n = <<0, 0, 0, 0>>) => d.numInstances = Zero32
            /\ d.instances = ia[1].instances.ptr

C1_Witness ==
    /\ descIA # None
    /\ ia[1].instances.len = <<0, 0, 1, 0>>
    /\ descIA[1].input.numInstances = Zero32

\* C2: right after Instance::new(s) the record has the identity 3x4
\* transform, instance_id 0, sbt_offset 0, visibility_mask 255, flags NONE,
\* pad [0, 0] and the handle s returns.
C2_NewDefaults ==
    last = AllNone =>
        /\ inst.transform = [x |-> [x |-> 1, y |-> 0, z |-> 0, w |-> 0],
                             y |-> [x |-> 0, y |-> 1, z |-> 0, w |-> 0],
                             z |-> [x |-> 0, y |-> 0, z |-> 1, w |-> 0]]
        /\ inst.instance_id = Zero32
        /\ inst.sbt_offset = Zero32
        /\ inst.visibility_mask = <<255, 0>>
        /\ inst.flags = Zero32
        /\ inst.pad = <<Zero32, Zero32>>
        /\ inst.traversable_handle = accel.hnd

C2_Witness ==
    /\ last = AllNone
    /\ accel.hnd = MaxHandle
    /\ inst.traversable_handle = MaxHandle

\* C3: both pad words are zero in every reachable state.
C3_PadZero == inst.pad = <<Zero32, Zero32>>

C3_Witness ==
    /\ \A f \in ConfigOps : last[f] # None
    /\ overwrote
    /\ inst.pad = <<Zero32, Zero32>>

\* C5: the stored visibility_mask is a u32 in 0..255: 255 after new, the
\* argument of the latest visibility_mask call otherwise.
C5_MaskRange ==
    /\ IsU32(inst.visibility_mask)
    /\ inst.visibility_mask[2] = 0
    /\ inst.visibility_mask[1] \in 0..255
    /\ last.visibility_mask = None => inst.visibility_mask[1] = 255
    /\ last.visibility_mask # None =>
          inst.visibility_mask[1] = last.visibility_mask[1]

C5_Witness ==
    /\ last.visibility_mask = Some(200)
    /\ inst.visibility_mask = <<200, 0>>
    /\ last.flags # None

\* C6: every configurable field holds the argument of the latest call of its
\* operation, or its default if there was none; flags holds exactly the
\* latest argument, not a union with earlier ones.
C6_LastWriteWins ==
    /\ inst.transform =
          LET t == IF last.transform = None THEN IdentityArray
                   ELSE last.transform[1]
          IN  [x |-> [x |-> t[1], y |-> t[2],  z |-> t[3],  w |-> t[4]],
               y |-> [x |-> t[5], y |-> t[6],  z |-> t[7],  w |-> t[8]],
               z |-> [x |-> t[9], y |-> t[10], z |-> t[11], w |-> t[12]]]
    /\ inst.instance_id =
          IF last.instance_id = None THEN Zero32 ELSE last.instance_id[1]
    /\ inst.sbt_offset =
          IF last.sbt_offset = None THEN Zero32 ELSE last.sbt_offset[1]
    /\ NumEq(inst.visibility_mask,
             IF last.visibility_mask = None THEN <<255>> ELSE last.visibility_mask)
    /\ inst.flags = IF last.flags = None THEN Zero32 ELSE last.flags[1].u

C6_Witness ==
    /\ overwrote
    /\ \A f \in ConfigOps : last[f] # None
    /\ last.flags[1].a = NONE /\ last.flags[1].b = NONE
    /\ inst.flags = Zero32
    /\ inst.instance_id = U32MAX

\* C8: the layout of Instance: transform at 0 (48 bytes), instance_id at 48,
\* sbt_offset at 52, visibility_mask at 56, flags at 60, traversable_handle
\* at 64 (8 bytes), pad at 72 (8 bytes), no other sized field, size 80 and
\* alignment 16, both equal to the driver struct's.
C8_Layout ==
    LET F == InstanceFields
        At(i, nm, off, sz) ==
            F[i].name = nm /\ offset_of(i) = off /\ F[i].size = sz
    IN  /\ At(1, "transform", 0, 48)
        /\ At(2, "instance_id", 48, 4)
        /\ At(3, "sbt_offset", 52, 4)
        /\ At(4, "visibility_mask", 56, 4)
        /\ At(5, "flags", 60, 4)
        /\ At(6, "traversable_handle", 64, 8)
        /\ At(7, "pad", 72, 8)
        /\ \A i \in 8..Len(F) : F[i].size = 0
        /\ DOMAIN inst = {F[i].name : i \in 1..Len(F)}
        /\ size_of_Instance = 80
        /\ align_of_Instance = 16
        /\ ConstAsserts

C8_Witness ==
    /\ \A f \in ConfigOps : last[f] # None
    /\ size_of_Instance = size_of_OptixInstance
    /\ DOMAIN inst = {InstanceFields[i].name : i \in 1..Len(InstanceFields)}

\* C9: for named flags a and b, a | b has exactly the bits of a and of b,
\* contains a and contains b, and contains no other named flag than NONE.
C9_UnionMembership ==
    last.flags # None =>
        LET a == last.flags[1].a
            b == last.flags[1].b
            u == inst.flags
        IN  /\ \A i \in 0..31 :
                  (Bit(u, i) = 1) <=> (Bit(a, i) = 1 \/ Bit(b, i) = 1)
            /\ contains(u, a)
            /\ contains(u, b)
            /\ \A c \in NamedFlags \ {NONE, a, b} : ~contains(u, c)

C9_Witness ==
    /\ last.flags # None
    /\ last.flags[1].a = DISABLE_ANYHIT
    /\ last.flags[1].b = ENFORCE_ANYHIT
    /\ inst.flags = <<12, 0>>

\* a step that is a configuration call (last' then holds an argument) changes
\* only the field of the operation called and yields a well-formed record
C10_OnlyOwnField ==
    (last' # AllNone) =>
        /\ IsInstance(inst')
        /\ \A f \in ConfigOps : (last'[f] = last[f]) => (inst'[f] = inst[f])
        /\ \A f \in {"traversable_handle", "pad", "accel"} : inst'[f] = inst[f]

\* calls on different fields commute, from the current record
C10_Commute ==
    /\ \A i \in U32Args, o \in U32Args :
          instance_id(sbt_offset(inst, o), i) = sbt_offset(instance_id(inst, i), o)
    /\ \A i \in U32Args, m \in U8Args :
          instance_id(visibility_mask(inst, m), i)
            = visibility_mask(instance_id(inst, i), m)
    /\ \A i \in U32Args, f \in NamedFlags :
          /\ instance_id(flags(inst, f), i) = flags(instance_id(inst, i), f)
          /\ sbt_offset(flags(inst, f), i) = flags(sbt_offset(inst, i), f)
    /\ \A i \in U32Args, t \in TransformArgs :
          /\ instance_id(transform(inst, t), i) = transform(instance_id(inst, i), t)
          /\ sbt_offset(transform(inst, t), i) = transform(sbt_offset(inst, i), t)
    /\ \A o \in U32Args, m \in U8Args :
          sbt_offset(visibility_mask(inst, m), o)
            = visibility_mask(sbt_offset(inst, o), m)
    /\ \A m \in U8Args, f \in NamedFlags :
          visibility_mask(flags(inst, f), m) = flags(visibility_mask(inst, m), f)
    /\ \A m \in U8Args, t \in TransformArgs :
          visibility_mask(transform(inst, t), m)
            = transform(visibility_mask(inst, m), t)
    /\ \A f \in NamedFlags, t \in TransformArgs :
          flags(transform(inst, t), f) = transform(flags(inst, f), t)

\* C10: a configuration call changes only its own field and always yields a
\* well-formed record; the handle stays the one captured by new; calls on
\* different fields commute.
C10_Frame ==
    /\ [](inst.traversable_handle = handle(accel) /\ C10_Commute)
    /\ [][C10_OnlyOwnField]_vars

C10_Witness ==
    /\ \A f \in ConfigOps : last[f] # None
    /\ overwrote
    /\ accel.hnd = MaxHandle
    /\ inst.traversable_handle = MaxHandle

\* C4: for the same device pointer and length, the descriptors of
\* InstanceArray and InstancePointerArray carry different type tags
\* (INSTANCES, INSTANCE_POINTERS) and identical payloads.
C4_TagsDifferPayloadSame ==
    (/\ descIA # None /\ descIPA # None
     /\ ia[1].instances.ptr = ipa[1].instances.ptr
     /\ ia[1].instances.len = ipa[1].instances.len) =>
        /\ descIA[1].type_ = OPTIX_BUILD_INPUT_TYPE_INSTANCES
        /\ descIPA[1].type_ = OPTIX_BUILD_INPUT_TYPE_INSTANCE_POINTERS
        /\ descIA[1].type_ # descIPA[1].type_
        /\ descIA[1].input = descIPA[1].input

C4_Witness ==
    /\ descIA # None /\ descIPA # None
    /\ ia[1].instances = ipa[1].instances
    /\ ia[1].instances.len = UsizeLit(1)
    /\ descIA[1].input = descIPA[1].input

\* the payload of descriptor d of slice s, for the generation compiled in
PayloadShape(d, s) ==
    /\ IF NewerGeneration(features)
       THEN DOMAIN d.input = {"instances", "numInstances"}
       ELSE /\ DOMAIN d.input = {"instances", "numInstances", "aabbs", "numAabbs"}
            /\ d.input.aabbs = 0
            /\ d.input.numAabbs = Zero32
    /\ d.input.instances = s.ptr
    /\ d.input.numInstances = <<s.len[1], s.len[2]>>

\* C7: under optix72/optix73 the payload of both descriptors is exactly
\* {instances, numInstances}; otherwise it also has aabbs and numAabbs, both
\* zero; the data pointer and the count do not depend on the generation.
C7_GenerationShape ==
    /\ descIA # None => PayloadShape(descIA[1], ia[1].instances)
    /\ descIPA # None => PayloadShape(descIPA[1], ipa[1].instances)
    /\ \A f \in FeatureSets, g \in FeatureSets :
          /\ ia # None =>
                LET x == InstanceArray_to_sys(ia[1], f).input
                    y == InstanceArray_to_sys(ia[1], g).input
                IN  x.instances = y.instances /\ x.numInstances = y.numInstances
          /\ ipa # None =>
                LET x == InstancePointerArray_to_sys(ipa[1], f).input
                    y == InstancePointerArray_to_sys(ipa[1], g).input
                IN  x.instances = y.instances /\ x.numInstances = y.numInstances

C7_Witness ==
    /\ features = {}
    /\ descIA # None /\ descIPA # None
    /\ ia[1].instances.len = UsizeLit(MaxLen)
    /\ descIA[1].input.aabbs = 0 /\ descIPA[1].input.numAabbs = Zero32

=============================================================================
